---- MODULE Spec2Model ----
(***************************************************************************)
(* Night-shift corporate transport: passengers are clustered, packed into  *)
(* vehicles of a capacity catalog, and each vehicle's pickups are ordered  *)
(* by a nearest-neighbour tour over travel times of a routing service.     *)
(*                                                                         *)
(* Sources: src/src/route_optimizer.py (RouteOptimizer) and                *)
(*          src/src/real_routing.py   (RealRouteCalculator).               *)
(*                                                                         *)
(* Two specifications share the module:                                    *)
(*   TourSpec  - one vehicle's sequencing: travel-time matrix, one query   *)
(*               per step with an arbitrary service reply, nearest-        *)
(*               neighbour tour, route geometry.                           *)
(*   Spec      - generate_routes end to end: clustering, grouping, the     *)
(*               greedy vehicle assignment step by step, one route per     *)
(*               step, the summary.                                        *)
(* Floats are modelled as exact rationals [n, d] in lowest terms.          *)
(* Data frames are sequences of records; iloc index k is element k+1.      *)
(***************************************************************************)
EXTENDS Integers, Sequences, FiniteSets, TLC

\* ------------------------------------------------------------------ bounds
\* Largest number of passengers of one vehicle in TourSpec.
MaxStops == 3
\* Largest number of passengers handed to generate_routes in Spec.
MaxPassengers == 41

\* Rows of the CSV file in MainSpec.
MaxCsvRows == 9

\* Rows of the frame passed to cluster_passengers in ClusterSpec.
MaxNoiseRows == 5

\* Rows of one cluster handed to optimize_vehicle_assignment in AssignSpec.
MaxClusterRows == 5

\* Vehicles the assignment of one cluster may emit beyond the cluster's size
\* before the model stops following its loop.
MaxExtraVehicles == 2

\* ------------------------------------------------------- program constants
\* route['duration'] / 60 : seconds to minutes.
SecondsPerMinute == 60
\* route['distance'] / 1000 : metres to kilometres.
MetersPerKm == 1000
\* (distance_km / 25) * 60 : assumed average speed and minutes per hour.
AverageSpeedKmh == 25
MinutesPerHour == 60
\* estimated_clusters = max(1, total_passengers // 20)
TargetGroupSize == 20

\* --------------------------------------------------------------- rationals
Abs(x) == IF x < 0 THEN -x ELSE x

Max2(a, b) == IF a >= b THEN a ELSE b

Min2(a, b) == IF a <= b THEN a ELSE b

SetMin(S) == CHOOSE x \in S : \A y \in S : x <= y

SetMax(S) == CHOOSE x \in S : \A y \in S : x >= y

RECURSIVE Gcd(_, _)
Gcd(a, b) == IF b = 0 THEN a ELSE Gcd(b, a % b)

\* The float n/d (d # 0), in lowest terms with a positive denominator.
Rat(n, d) ==
    LET s == IF d < 0 THEN -1 ELSE 1
        g == Gcd(Abs(n), Abs(d))
    IN  [n |-> (s * n) \div g, d |-> (s * d) \div g]

RatDiv(r, k) == Rat(r.n, r.d * k)

RatMul(r, k) == Rat(r.n * k, r.d)

RatLess(a, b) == a.n * b.d < b.n * a.d

Zero == Rat(0, 1)

\* ------------------------------------------------------------- coordinates
\* A coordinate is <<lat, lng>>.  The regional box is abstracted to a small
\* grid; geopy's geodesic(a, b).kilometers is abstracted to a metric on it.
OfficeCoords == <<5, -74>>

Places == {<<4, -75>>, <<4, -74>>, <<6, -75>>}

Geodesic(a, b) == Rat(Abs(a[1] - b[1]) + Abs(a[2] - b[2]), 1)

\* A coordinate outside the box, with a latitude beyond the pole: a frame
\* handed to generate_routes without data reception may carry one.
StrayPlace == <<95, -75>>

\* geodesic(a, b) builds a geopy Point of each argument, and Point raises
\* ValueError for a latitude outside [-90, 90].
GeodesicRaises(a, b) == Abs(a[1]) > 90 \/ Abs(b[1]) > 90

\* --------------------------------------------------------- routing service
\* A reply of the routing service to one HTTP request, as the client sees it:
\*   net     what requests.get does ("ok", or the exception it raises),
\*   status  the HTTP status (raise_for_status raises from 400 on),
\*   json    whether response.json() parses the body,
\*   code    data['code'] ("absent": the key is missing),
\*   routes  data['routes'] ("absent": the key is missing; else a list),
\* and each route carries duration (seconds), distance (metres) and, for the
\* geometry request, geometry.coordinates as a list of <<lng, lat>>.
Num(v) == [t |-> "num", v |-> v]

NotANumber == [t |-> "str", v |-> 0]

AbsentKey == [t |-> "absent", v |-> 0]

NoGeometry == [t |-> "absent", coordinates |-> <<>>]

Geometry(line) == [t |-> "ok", coordinates |-> line]

RouteObj(duration, distance, geometry) ==
    [duration |-> duration, distance |-> distance, geometry |-> geometry]

Reply(net, status, json, code, routesT, items) ==
    [net |-> net, status |-> status, json |-> json, code |-> code,
     routes |-> [t |-> routesT, items |-> items]]

OkReply(duration, distance, geometry) ==
    Reply("ok", 200, TRUE, "Ok", "list",
          <<RouteObj(Num(duration), Num(distance), geometry)>>)

\* Replies that make the guarded block raise or fall through.
FailedReplies ==
    { Reply("connection_error", 0, FALSE, "absent", "absent", <<>>),
      Reply("timeout", 0, FALSE, "absent", "absent", <<>>),
      Reply("ok", 404, TRUE, "Ok", "list", <<RouteObj(Num(60), Num(1000), NoGeometry)>>),
      Reply("ok", 500, FALSE, "absent", "absent", <<>>),
      Reply("ok", 200, FALSE, "absent", "absent", <<>>),
      Reply("ok", 200, TRUE, "absent", "list", <<RouteObj(Num(60), Num(1000), NoGeometry)>>),
      Reply("ok", 200, TRUE, "NoRoute", "list", <<>>),
      Reply("ok", 200, TRUE, "NoRoute", "list", <<RouteObj(Num(60), Num(1000), NoGeometry)>>),
      Reply("ok", 200, TRUE, "Ok", "absent", <<>>),
      Reply("ok", 200, TRUE, "Ok", "list", <<>>) }

\* Replies with code 'Ok' and a route whose payload is malformed.
MalformedRouteReplies ==
    { Reply("ok", 200, TRUE, "Ok", "list", <<RouteObj(AbsentKey, Num(1000), NoGeometry)>>),
      Reply("ok", 200, TRUE, "Ok", "list", <<RouteObj(Num(60), AbsentKey, NoGeometry)>>),
      Reply("ok", 200, TRUE, "Ok", "list", <<RouteObj(NotANumber, Num(1000), NoGeometry)>>),
      Reply("ok", 200, TRUE, "Ok", "list", <<RouteObj(Num(60), NotANumber, NoGeometry)>>) }

\* <<seconds, metres>> of the well-formed successful replies.  144 s is the
\* fallback's duration for 1 km, so service and fallback durations can tie.
\* The client accepts any number the reply carries, a negative one included.
ServiceValues == {<<0, 0>>, <<144, 1000>>, <<300, 2500>>, <<-90, -500>>}

DurationReplies ==
    FailedReplies \cup MalformedRouteReplies
        \cup {OkReply(v[1], v[2], NoGeometry) : v \in ServiceValues}

\* The statements of a try block up to "data['code'] == 'Ok' and
\* data['routes']": "raise" when one of them raises, "skip" when the
\* condition is false, "route" when the if-body is entered.
ReplyGate(reply) ==
    IF reply.net # "ok" THEN "raise"              \* requests.get
    ELSE IF reply.status >= 400 THEN "raise"      \* raise_for_status
    ELSE IF ~reply.json THEN "raise"              \* response.json()
    ELSE IF reply.code = "absent" THEN "raise"    \* data['code']
    ELSE IF reply.code # "Ok" THEN "skip"
    ELSE IF reply.routes.t = "absent" THEN "raise" \* data['routes']
    ELSE IF reply.routes.items = <<>> THEN "skip"
    ELSE "route"

\* Lines 47-57 of get_route_duration_distance: the body of the try block.
DurationTryBody(reply) ==
    LET gate == ReplyGate(reply)
        route == reply.routes.items[1]
    IN  IF gate # "route" THEN [kind |-> gate, minutes |-> Zero, km |-> Zero]
        ELSE IF route.duration.t # "num" \/ route.distance.t # "num"
        THEN [kind |-> "raise", minutes |-> Zero, km |-> Zero]
        ELSE [kind |-> "return",
              minutes |-> Rat(route.duration.v, SecondsPerMinute),
              km |-> Rat(route.distance.v, MetersPerKm)]

\* Lines 63-65: the geodesic fallback.
DurationFallback(origin, destination) ==
    LET distance_km == Geodesic(origin, destination)
    IN  [raised |-> GeodesicRaises(origin, destination),
         minutes |-> RatMul(RatDiv(distance_km, AverageSpeedKmh), MinutesPerHour),
         km |-> distance_km]

\* A variant whose handler catches only the transport errors of requests.
GetRouteDurationDistanceNarrowExcept(origin, destination, reply) ==
    LET body == DurationTryBody(reply)
    IN  IF body.kind = "return"
        THEN [raised |-> FALSE, minutes |-> body.minutes, km |-> body.km]
        ELSE IF body.kind = "raise" /\ reply.net = "ok" /\ reply.status < 400
        THEN [raised |-> TRUE, minutes |-> Zero, km |-> Zero]
        ELSE DurationFallback(origin, destination)

\* get_route_duration_distance: "except Exception" catches whatever the try
\* body raises, and both that and a false condition reach the fallback.
GetRouteDurationDistance(origin, destination, reply) ==
    LET body == DurationTryBody(reply)
    IN  IF body.kind = "return"
        THEN [raised |-> FALSE, minutes |-> body.minutes, km |-> body.km]
        ELSE DurationFallback(origin, destination)

\* [lng, lat] -> [lat, lng]
SwapPoint(coord) == <<coord[2], coord[1]>>

\* Lines 23-36 of get_route_coordinates: the body of the try block.  A
\* point of the geometry with fewer than two numbers makes coord[1] raise.
GeometryTryBody(reply) ==
    LET gate == ReplyGate(reply)
        route == reply.routes.items[1]
        points == route.geometry.coordinates
    IN  IF gate # "route" THEN [kind |-> gate, line |-> <<>>]
        ELSE IF route.geometry.t # "ok" THEN [kind |-> "raise", line |-> <<>>]
        ELSE IF \E k \in 1..Len(points) : Len(points[k]) < 2
        THEN [kind |-> "raise", line |-> <<>>]
        ELSE [kind |-> "return",
              line |-> [k \in 1..Len(points) |-> SwapPoint(points[k])]]

\* A variant whose handler catches only the transport errors of requests.
RouteCoordinatesCallNarrowExcept(coordinates, reply) ==
    IF Len(coordinates) < 2 THEN [raised |-> FALSE, line |-> coordinates]
    ELSE LET body == GeometryTryBody(reply)
         IN  IF body.kind = "return" THEN [raised |-> FALSE, line |-> body.line]
             ELSE IF body.kind = "raise" /\ reply.net = "ok" /\ reply.status < 400
             THEN [raised |-> TRUE, line |-> <<>>]
             ELSE [raised |-> FALSE, line |-> coordinates]

\* One call of get_route_coordinates: whether it raises, and what it
\* returns.  "except Exception" catches whatever the try body raises, and
\* both that and a false condition reach "return coordinates".
RouteCoordinatesCall(coordinates, reply) ==
    IF Len(coordinates) < 2 THEN [raised |-> FALSE, line |-> coordinates]
    ELSE LET body == GeometryTryBody(reply)
         IN  IF body.kind = "return" THEN [raised |-> FALSE, line |-> body.line]
             ELSE [raised |-> FALSE, line |-> coordinates]

\* get_route_coordinates: the returned list.
GetRouteCoordinates(coordinates, reply) == RouteCoordinatesCall(coordinates, reply).line

\* The polyline the service draws through the waypoints of a request: the
\* waypoints as <<lng, lat>>, with a via point after the first one.
ServiceLine(coordinates) ==
    LET pts == [k \in 1..Len(coordinates) |-> SwapPoint(coordinates[k])]
    IN  IF pts = <<>> THEN <<>>
        ELSE <<pts[1], <<9, 9>>>> \o SubSeq(pts, 2, Len(pts))

\* The replies to a geometry request: the failed ones, a route without
\* geometry, a geometry with a malformed point, and well-formed ones.
GeometryReplies(coordinates) ==
    FailedReplies
        \cup {Reply("ok", 200, TRUE, "Ok", "list", <<RouteObj(Num(60), Num(1000), NoGeometry)>>),
              OkReply(60, 1000, Geometry(<<<<0, 0>>, <<5>>>>)),
              OkReply(60, 1000, Geometry(<<>>)),
              OkReply(60, 1000, Geometry(ServiceLine(coordinates)))}

\* ------------------------------------------------------------ data frames
\* Row k of the passenger input: the id is the row's key; the coordinate is
\* drawn from Places by the layout.
PlaceOrder == <<<<4, -75>>, <<4, -74>>, <<6, -75>>>>

Layouts == {0, 1}

PlaceOf(k, layout) == PlaceOrder[((k + layout * (k \div 2)) % 3) + 1]

Passenger(k, layout) ==
    [id |-> k, lat |-> PlaceOf(k, layout)[1], lng |-> PlaceOf(k, layout)[2]]

Frame(n, layout) == [k \in 1..n |-> Passenger(k, layout)]

\* The same frame with the stray coordinate in its last row.
StrayFrame(n, layout) ==
    [k \in 1..n |-> IF k = n THEN [id |-> k, lat |-> StrayPlace[1], lng |-> StrayPlace[2]]
                    ELSE Passenger(k, layout)]

\* (row['lat'], row['lng'])
CoordOf(row) == <<row.lat, row.lng>>

\* frame.iloc[list of 0-based positions]
ILoc(frame, positions) == [k \in 1..Len(positions) |-> frame[positions[k] + 1]]

Range(seq) == {seq[k] : k \in 1..Len(seq)}

\* ------------------------------------------------- travel-time matrix, tour
\* np.zeros((n, n)), indexed from 0.
ZeroMatrix(n) == [i \in 0..(n - 1) |-> [j \in 0..(n - 1) |-> Zero]]

\* A variant that fills the upper triangle only.
StoreDurationOneWay(matrix, i, j, duration_min) ==
    [matrix EXCEPT ![i][j] = duration_min]

\* time_matrix[i][j] = duration_min ; time_matrix[j][i] = duration_min
StoreDuration(matrix, i, j, duration_min) ==
    [matrix EXCEPT ![i][j] = duration_min, ![j][i] = duration_min]

\* The pair after (i, j) in "for i in range(n): for j in range(i+1, n)";
\* <<n, n>> when the loops are over.
NextPair(i, j, n) ==
    IF j + 1 < n THEN <<i, j + 1>>
    ELSE IF i + 2 < n THEN <<i + 1, i + 2>>
    ELSE <<n, n>>

FirstPair(n) == IF n >= 2 THEN <<0, 1>> ELSE <<n, n>>

\* A variant of the selection that keeps the last of several equal minima.
NearestLastOnTie(matrix, unvisited, current) ==
    CHOOSE x \in unvisited :
        \A y \in unvisited :
            /\ ~RatLess(matrix[current][y], matrix[current][x])
            /\ matrix[current][y] = matrix[current][x] => y <= x

\* min(unvisited, key=lambda x: distance_matrix[current][x]).  A CPython set
\* of small non-negative ints is iterated in ascending order and min keeps
\* the first minimum it meets: the lowest index among equal durations.
Nearest(matrix, unvisited, current) ==
    CHOOSE x \in unvisited :
        \A y \in unvisited :
            /\ ~RatLess(matrix[current][y], matrix[current][x])
            /\ matrix[current][y] = matrix[current][x] => x <= y

RECURSIVE TspLoop(_, _, _, _)
TspLoop(matrix, unvisited, current, route) ==
    IF unvisited = {} THEN route
    ELSE LET nearest == Nearest(matrix, unvisited, current)
         IN  TspLoop(matrix, unvisited \ {nearest}, nearest, Append(route, nearest))

\* A variant that never removes the start index from the unvisited set.
SolveTspGreedyKeepStart(distance_matrix, start_idx) ==
    LET n == Cardinality(DOMAIN distance_matrix)
    IN  IF n = 0 THEN [raised |-> TRUE, route |-> <<>>]
        ELSE [raised |-> FALSE,
              route |-> TspLoop(distance_matrix, 0..(n - 1), start_idx, <<start_idx>>)]

\* solve_tsp_greedy; unvisited.remove(current) raises KeyError when
\* start_idx is not an index of the matrix (an empty matrix included).
SolveTspGreedy(distance_matrix, start_idx) ==
    LET n == Cardinality(DOMAIN distance_matrix)
        unvisited == 0..(n - 1)
    IN  IF start_idx \notin unvisited THEN [raised |-> TRUE, route |-> <<>>]
        ELSE [raised |-> FALSE,
              route |-> TspLoop(distance_matrix, unvisited \ {start_idx},
                                start_idx, <<start_idx>>)]

\* A variant that leaves the office out of the list.
WaypointsWithoutDepot(frame) == [k \in 1..Len(frame) |-> CoordOf(frame[k])]

\* all_coords of get_real_route_coordinates: office, then the rows in order.
Waypoints(frame) == <<OfficeCoords>> \o [k \in 1..Len(frame) |-> CoordOf(frame[k])]

\* get_real_route_coordinates
GetRealRouteCoordinates(frame, reply) == GetRouteCoordinates(Waypoints(frame), reply)

\* -------------------------------------------------------------- clustering
\* A variant that sorts the catalog in ascending order.
RECURSIVE InsertAsc(_, _)
InsertAsc(sorted, x) ==
    IF sorted = <<>> THEN <<x>>
    ELSE IF x < Head(sorted) THEN <<x>> \o sorted
    ELSE <<Head(sorted)>> \o InsertAsc(Tail(sorted), x)

\* sorted(bus_capacities, reverse=True)
RECURSIVE InsertDesc(_, _)
InsertDesc(sorted, x) ==
    IF sorted = <<>> THEN <<x>>
    ELSE IF x > Head(sorted) THEN <<x>> \o sorted
    ELSE <<Head(sorted)>> \o InsertDesc(Tail(sorted), x)

\* A variant that keeps the catalog in the order given.
SortDescAsGiven(seq) == seq

RECURSIVE SortDesc(_)
SortDesc(seq) ==
    IF seq = <<>> THEN <<>> ELSE InsertDesc(SortDesc(Tail(seq)), Head(seq))

\* n_clusters of the KMeans call: min(max(1, total // 20), total).
ClusterCount(total_passengers) ==
    Min2(Max2(1, total_passengers \div TargetGroupSize), total_passengers)

\* The labelings fit_predict may return for n rows and k clusters (labels
\* 0..k-1; a label may stay unused): one label for all, a split of the rows
\* at a position (either label first), or alternating labels.
SplitPoints(n) == {0, 1, 25}

Labelings(count, groups) ==
    IF groups = 1 THEN {[row \in 1..count |-> 0]}
    ELSE {[row \in 1..count |-> IF row <= split THEN first ELSE (first + 1) % groups] :
             split \in SplitPoints(count), first \in 0..(groups - 1)}
         \cup {[row \in 1..count |-> row % groups]}

\* A variant without random_state: each call may label differently.
FitPredictUnseeded(count, groups, call_no, seen) == Labelings(count, groups)

\* KMeans(..., random_state=42).fit_predict(coords): one of the labelings
\* on the first call, and the same one whenever it is called again on the
\* same coordinates.
FitPredict(count, groups, call_no, seen) ==
    IF call_no = 1 THEN Labelings(count, groups) ELSE {seen}

\* passengers['cluster'] = labels : the column is added to the caller's frame.
WithCluster(frame, labels) ==
    [i \in 1..Len(frame) |->
        [id |-> frame[i].id, lat |-> frame[i].lat, lng |-> frame[i].lng,
         cluster |-> labels[i]]]

\* Position of the first row of the frame that carries the label.
FirstRow(frame, label) ==
    SetMin({pos \in 1..Len(frame) : frame[pos].cluster = label})

\* passengers_clustered['cluster'].unique(): the labels present, in order of
\* first appearance.
UniqueLabels(frame) ==
    LET present == {frame[pos].cluster : pos \in 1..Len(frame)}
    IN  [rank \in 1..Cardinality(present) |->
            CHOOSE label \in present :
                Cardinality({other \in present :
                                FirstRow(frame, other) < FirstRow(frame, label)}) = rank - 1]

RowsOf(frame, cluster_id) ==
    LET InCluster(row) == row.cluster = cluster_id
    IN  SelectSeq(frame, InCluster)

\* generate_routes 154-158: the dict of clusters, in insertion order.
GroupByCluster(frame) ==
    LET ids == UniqueLabels(frame)
    IN  [k \in 1..Len(ids) |-> [cluster_id |-> ids[k], rows |-> RowsOf(frame, ids[k])]]

\* ------------------------------------------------------- vehicle assignment
\* Python's slice stop/start for frame.iloc[:c] and frame.iloc[c:].
SliceAt(len, c) == IF c >= 0 THEN Min2(c, len) ELSE Max2(len + c, 0)

\* A variant of iloc[:c] that takes one row too many.
ILocToInclusive(frame, c) == SubSeq(frame, 1, SliceAt(Len(frame), c + 1))

ILocTo(frame, c) == SubSeq(frame, 1, SliceAt(Len(frame), c))

\* A variant of iloc[c:] that starts one row too late.
ILocFromSkipsOne(frame, c) ==
    SubSeq(frame, SliceAt(Len(frame), c) + 2, Len(frame))

ILocFrom(frame, c) == SubSeq(frame, SliceAt(Len(frame), c) + 1, Len(frame))

\* A variant with the two numbers of the dict swapped.
BusSwapped(capacity, passengers_count, rows) ==
    [capacity |-> passengers_count, passengers_count |-> capacity, passengers |-> rows]

Bus(capacity, passengers_count, rows) ==
    [capacity |-> capacity, passengers_count |-> passengers_count, passengers |-> rows]

\* [cap for cap in self.bus_capacities if cap >= remaining_passengers]
Suitable(capacities, remaining) ==
    {capacities[q] : q \in {q2 \in 1..Len(capacities) : capacities[q2] >= remaining}}

\* A variant that takes the largest capacity that holds the remainder.
SuitableCapacityLargest(capacities, remaining) ==
    SetMax(Suitable(capacities, remaining))

\* A variant that takes the first sufficient capacity in catalog order.
SuitableCapacityFirstFit(capacities, remaining) ==
    capacities[SetMin({q \in 1..Len(capacities) : capacities[q] >= remaining})]

\* suitable_capacity = min([...]) of a non-empty list
SuitableCapacity(capacities, remaining) == SetMin(Suitable(capacities, remaining))

\* ------------------------------------------------ the service during a run
\* In Spec the routing service answers as a function of the request.
ServiceModes == {"down", "up", "flaky"}

ServiceReply(svc, origin, destination) ==
    LET km == Geodesic(origin, destination).n
    IN  IF svc = "down" THEN Reply("connection_error", 0, FALSE, "absent", "absent", <<>>)
        ELSE IF svc = "flaky" /\ origin[1] = 4
        THEN Reply("ok", 200, TRUE, "NoRoute", "list", <<>>)
        ELSE OkReply(600 - 120 * km + 60 * (destination[2] + 75), 1000 * km, NoGeometry)

GeometryServiceReply(svc, coordinates) ==
    IF svc = "down" THEN Reply("timeout", 0, FALSE, "absent", "absent", <<>>)
    ELSE IF svc = "flaky" /\ Len(coordinates) > 2
    THEN Reply("ok", 500, FALSE, "absent", "absent", <<>>)
    ELSE OkReply(60, 1000, Geometry(ServiceLine(coordinates)))

\* The call of calculate_real_distance_matrix's loop body for rows i < j.
PairQuery(frame, i, j, svc) ==
    LET origin == CoordOf(frame[i + 1])
        destination == CoordOf(frame[j + 1])
    IN  GetRouteDurationDistance(origin, destination,
                                 ServiceReply(svc, origin, destination))

\* calculate_real_distance_matrix, as the matrix its loops leave behind: the
\* zero diagonal of np.zeros, and for every i < j the one result of the
\* query for (i, j) in both [i][j] and [j][i].  It raises when a call does.
CalculateRealDistanceMatrix(frame, svc) ==
    LET n == Len(frame)
        idx == 0..(n - 1)
    IN  [raised |-> \E i \in idx, j \in idx : i < j /\ PairQuery(frame, i, j, svc).raised,
         matrix |-> [i \in idx |-> [j \in idx |->
                       IF i = j THEN Zero
                       ELSE PairQuery(frame, Min2(i, j), Max2(i, j), svc).minutes]]]

\* Number of duration queries calculate_real_distance_matrix issues.
PairCount(n) == (n * (n - 1)) \div 2

NoRoute == [raised |-> TRUE, ordered |-> <<>>, coords |-> <<>>, asked |-> 0,
            matrix |-> ZeroMatrix(0)]

\* generate_routes 168-189: one assignment's visiting order and geometry.
SequenceVehicle(rows, svc) ==
    IF Len(rows) > 1
    THEN LET m == CalculateRealDistanceMatrix(rows, svc)
             tsp == SolveTspGreedy(m.matrix, 0)
             ordered == ILoc(rows, tsp.route)
         IN  IF m.raised \/ tsp.raised THEN NoRoute
             ELSE [raised |-> FALSE, ordered |-> ordered,
                   coords |-> GetRealRouteCoordinates(
                                  ordered, GeometryServiceReply(svc, Waypoints(ordered))),
                   asked |-> PairCount(Len(rows)), matrix |-> m.matrix]
    ELSE IF Len(rows) = 0 THEN NoRoute   \* ordered_passengers.iloc[0]: IndexError
    ELSE LET coords == <<OfficeCoords, CoordOf(rows[1])>>
         IN  [raised |-> FALSE, ordered |-> rows,
              coords |-> GetRouteCoordinates(coords, GeometryServiceReply(svc, coords)),
              asked |-> 0, matrix |-> ZeroMatrix(0)]

\* ================================================================ TourSpec
\* One vehicle's passengers, sequenced either by the loop body of
\* generate_routes (entry "generate_routes") or by calling
\* calculate_real_distance_matrix and solve_tsp_greedy on the frame
\* directly (entry "direct").
VARIABLES
    entry,              \* how the sequencing code is entered
    tpc,                \* "start", "matrix", "tsp", "geometry", "done", "raised"
    bus_passengers,     \* the vehicle's passengers, in input order
    time_matrix,        \* the matrix under construction
    pair,               \* the next <<i, j>> of the matrix loops
    queries,            \* the pairs queried so far, in order
    call,               \* the last get_route_duration_distance call
    optimal_route,      \* solve_tsp_greedy's result
    ordered_passengers, \* the passengers in visiting order
    route_coords,       \* the route's geometry
    geometry_call       \* the last get_route_coordinates call

tourVars == <<entry, tpc, bus_passengers, time_matrix, pair, queries, call,
              optimal_route, ordered_passengers, route_coords, geometry_call>>

\* The state of one generate_routes run (Spec).
VARIABLES
    bus_capacities,       \* self.bus_capacities
    passengers,           \* the caller's passenger frame
    osrm,                 \* how the routing service answers during the run
    pc,                   \* "start", "assign", "routes", "done", "failed"
    clusters,             \* the dict of clusters, in insertion order
    ci,                   \* position of the cluster loop in clusters
    capi,                 \* position of the capacity loop in bus_capacities
    cluster_passengers,   \* the rows of the cluster not yet carved off
    remaining_passengers, \* the count still to assign in the cluster
    buses_for_cluster,    \* the cluster's assignments so far
    assignments,          \* optimize_vehicle_assignment's list
    routes_data,          \* the routes built so far
    asked,                \* number of duration queries issued so far
    distance_matrix,      \* the travel-time matrix of the last route loop pass
    result                \* what generate_routes returned

pipeVars == <<bus_capacities, passengers, osrm, pc, clusters, ci, capi,
              cluster_passengers, remaining_passengers, buses_for_cluster,
              assignments, routes_data, asked,
                   distance_matrix, result>>

\* The rows pd.read_csv hands to data reception (MainSpec).
VARIABLES
    csv                   \* the raw frame, one record of cells per row

\* generate_routes called a second time on the same frame (TwiceSpec).
VARIABLES
    run,                  \* 1 or 2: which call of generate_routes this is
    first_run,            \* what the first call returned
    fit_labels            \* what fit_predict returned for these coordinates

\* One call of cluster_passengers (ClusterSpec).
VARIABLES
    cpc,                  \* "start", "done", "raised"
    method,               \* 'kmeans' or 'dbscan'
    frame_in,             \* the frame passed in
    raw_labels,           \* what fit_predict returned
    frame_out             \* the frame returned, with its cluster column

clusterVars == <<cpc, method, frame_in, raw_labels, frame_out>>

\* generate_driver_app_data called on one route (AppSpec).
VARIABLES
    apc,                  \* "start", "ready", "done", "raised"
    name_bound,           \* RealRouteCalculator is bound in the module's globals
    route_info,           \* the route handed to generate_driver_app_data
    idx,                  \* passengers walked so far
    previous_coords,
    total_duration,
    total_distance,
    stops,
    passengers_list,
    leg_calls,            \* the provider's calls so far, with what they returned
    driver_app_data       \* the returned dict

appVars == <<apc, name_bound, route_info, idx, previous_coords, total_duration,
             total_distance, stops, passengers_list, leg_calls, driver_app_data>>

\* What the actions of the tour, and of generate_routes, leave alone.
outsideTour == <<pipeVars, csv, run, first_run, fit_labels, clusterVars, appVars>>

outsidePipe == <<tourVars, csv, run, first_run, clusterVars, appVars>>

vars == <<entry, tpc, bus_passengers, time_matrix, pair, queries, call,
          optimal_route, ordered_passengers, route_coords, geometry_call,
          bus_capacities, passengers, osrm, pc, clusters, ci, capi,
          cluster_passengers, remaining_passengers, buses_for_cluster,
          assignments, routes_data, asked, distance_matrix, result, csv,
          run, first_run, fit_labels,
          cpc, method, frame_in, raw_labels, frame_out,
          apc, name_bound, route_info, idx, previous_coords, total_duration,
          total_distance, stops, passengers_list, leg_calls, driver_app_data>>

NoSummary == [total_passengers |-> 0, total_buses |-> 0, total_capacity |-> 0,
              utilization_rate |-> Zero]

NoResult == [returned |-> FALSE, routes |-> <<>>, summary |-> NoSummary]

\* Before and during the first call.
FirstCall ==
    /\ run = 1
    /\ first_run = NoResult
    /\ fit_labels = <<>>

ClusterIdle ==
    /\ cpc = "idle"
    /\ method = "none"
    /\ frame_in = <<>>
    /\ raw_labels = <<>>
    /\ frame_out = <<>>

\* What generate_driver_app_data returns, before it has returned.
NoDriverData ==
    [returned |-> FALSE, total_stops |-> 0, estimated_duration_minutes |-> Zero,
     total_distance_km |-> Zero, average_speed_kmh |-> Zero,
     passengers |-> <<>>, route_stops |-> <<>>]

AppIdle ==
    /\ apc = "idle"
    /\ name_bound = FALSE
    /\ route_info = [capacity |-> 0, passengers_count |-> 0, passengers |-> <<>>]
    /\ idx = 0
    /\ previous_coords = OfficeCoords
    /\ total_duration = Zero
    /\ total_distance = Zero
    /\ stops = <<>>
    /\ passengers_list = <<>>
    /\ leg_calls = <<>>
    /\ driver_app_data = NoDriverData

PipeIdle ==
    /\ bus_capacities = <<>>
    /\ passengers = <<>>
    /\ osrm = "none"
    /\ pc = "idle"
    /\ clusters = <<>>
    /\ ci = 0
    /\ capi = 0
    /\ cluster_passengers = <<>>
    /\ remaining_passengers = 0
    /\ buses_for_cluster = <<>>
    /\ assignments = <<>>
    /\ routes_data = <<>>
    /\ asked = 0
    /\ distance_matrix = ZeroMatrix(0)
    /\ result = NoResult
    /\ csv = <<>>
    /\ FirstCall

NoCall == [made |-> FALSE, origin |-> <<0, 0>>, destination |-> <<0, 0>>,
           reply |-> Reply("ok", 200, TRUE, "Ok", "list", <<>>),
           result |-> [raised |-> FALSE, minutes |-> Zero, km |-> Zero]]

NoGeometryCall == [made |-> FALSE, coordinates |-> <<>>,
                   reply |-> Reply("ok", 200, TRUE, "Ok", "list", <<>>),
                   result |-> [raised |-> FALSE, line |-> <<>>]]

TourIdle ==
    /\ entry = "none"
    /\ tpc = "idle"
    /\ bus_passengers = <<>>
    /\ time_matrix = ZeroMatrix(0)
    /\ pair = <<0, 0>>
    /\ queries = <<>>
    /\ call = NoCall
    /\ optimal_route = <<>>
    /\ ordered_passengers = <<>>
    /\ route_coords = <<>>
    /\ geometry_call = NoGeometryCall

TourInit ==
    /\ PipeIdle
    /\ ClusterIdle
    /\ AppIdle
    /\ entry \in {"generate_routes", "direct", "coordinates"}
    /\ tpc = "start"
    /\ \E n \in 0..MaxStops, layout \in Layouts : bus_passengers = Frame(n, layout)
    /\ time_matrix = ZeroMatrix(0)
    /\ pair = <<0, 0>>
    /\ queries = <<>>
    /\ call = NoCall
    /\ optimal_route = <<>>
    /\ ordered_passengers = <<>>
    /\ route_coords = <<>>
    /\ geometry_call = NoGeometryCall

\* generate_routes 168-173 (len > 1), or a direct call: the matrix is
\* allocated and the loops of calculate_real_distance_matrix begin.
StartMatrix ==
    /\ UNCHANGED outsideTour
    /\ tpc = "start"
    /\ entry = "direct" \/ (entry = "generate_routes" /\ Len(bus_passengers) > 1)
    /\ LET n == Len(bus_passengers)
       IN  /\ time_matrix' = ZeroMatrix(n)
           /\ pair' = FirstPair(n)
           /\ tpc' = IF n >= 2 THEN "matrix" ELSE "tsp"
    /\ UNCHANGED <<entry, bus_passengers, queries, call, optimal_route,
                   ordered_passengers, route_coords, geometry_call>>

\* One iteration of the inner loop of calculate_real_distance_matrix: one
\* duration query, whose result is written to both halves of the matrix.
QueryPair ==
    /\ UNCHANGED outsideTour
    /\ tpc = "matrix"
    /\ \E reply \in DurationReplies :
         LET i == pair[1]
             j == pair[2]
             n == Len(bus_passengers)
             origin == CoordOf(bus_passengers[i + 1])
             destination == CoordOf(bus_passengers[j + 1])
             res == GetRouteDurationDistance(origin, destination, reply)
         IN  /\ call' = [made |-> TRUE, origin |-> origin,
                         destination |-> destination, reply |-> reply, result |-> res]
             /\ queries' = Append(queries, pair)
             /\ IF res.raised
                THEN /\ tpc' = "raised"
                     /\ UNCHANGED <<time_matrix, pair>>
                ELSE /\ time_matrix' = StoreDuration(time_matrix, i, j, res.minutes)
                     /\ pair' = NextPair(i, j, n)
                     /\ tpc' = IF NextPair(i, j, n) = <<n, n>> THEN "tsp" ELSE "matrix"
    /\ UNCHANGED <<entry, bus_passengers, optimal_route, ordered_passengers,
                   route_coords, geometry_call>>

\* generate_routes 176-179: the tour and the reordered frame.  The service
\* call record is dropped with calculate_real_distance_matrix's frame.
SolveTsp ==
    /\ UNCHANGED outsideTour
    /\ tpc = "tsp"
    /\ LET res == SolveTspGreedy(time_matrix, 0)
       IN  IF res.raised
           THEN /\ tpc' = "raised"
                /\ UNCHANGED <<optimal_route, ordered_passengers>>
           ELSE /\ optimal_route' = res.route
                /\ IF entry = "direct"
                   THEN /\ tpc' = "done"
                        /\ UNCHANGED ordered_passengers
                   ELSE /\ tpc' = "geometry"
                        /\ ordered_passengers' = ILoc(bus_passengers, res.route)
    /\ call' = NoCall
    /\ UNCHANGED <<entry, bus_passengers, time_matrix, pair, queries, route_coords,
                   geometry_call>>

\* generate_routes 182: the geometry of a route of several passengers.
RouteGeometry ==
    /\ UNCHANGED outsideTour
    /\ tpc = "geometry"
    /\ \E reply \in GeometryReplies(Waypoints(ordered_passengers)) :
         LET coords == Waypoints(ordered_passengers)
             res == RouteCoordinatesCall(coords, reply)
         IN  /\ geometry_call' = [made |-> TRUE, coordinates |-> coords,
                                  reply |-> reply, result |-> res]
             /\ IF res.raised
                THEN /\ tpc' = "raised"
                     /\ UNCHANGED route_coords
                ELSE /\ tpc' = "done"
                     /\ route_coords' = GetRealRouteCoordinates(ordered_passengers, reply)
    /\ UNCHANGED <<entry, bus_passengers, time_matrix, pair, queries, call,
                   optimal_route, ordered_passengers>>

\* generate_routes 184-189: the else branch.  ordered_passengers.iloc[0]
\* raises IndexError on an empty frame.
SinglePassenger ==
    /\ UNCHANGED outsideTour
    /\ tpc = "start"
    /\ entry = "generate_routes"
    /\ Len(bus_passengers) <= 1
    /\ ordered_passengers' = bus_passengers
    /\ IF Len(bus_passengers) = 0
       THEN /\ tpc' = "raised"
            /\ UNCHANGED <<route_coords, geometry_call>>
       ELSE LET coords == <<OfficeCoords, CoordOf(bus_passengers[1])>>
            IN  \E reply \in GeometryReplies(coords) :
                  LET res == RouteCoordinatesCall(coords, reply)
                  IN  /\ geometry_call' = [made |-> TRUE, coordinates |-> coords,
                                           reply |-> reply, result |-> res]
                      /\ IF res.raised
                         THEN /\ tpc' = "raised"
                              /\ UNCHANGED route_coords
                         ELSE /\ tpc' = "done"
                              /\ route_coords' = GetRouteCoordinates(coords, reply)
    /\ UNCHANGED <<entry, bus_passengers, time_matrix, pair, queries, call,
                   optimal_route>>

\* get_route_coordinates called on the passengers' own coordinates, a list
\* of any length (empty and one-element lists included).
CoordinatesOnly ==
    /\ UNCHANGED outsideTour
    /\ tpc = "start"
    /\ entry = "coordinates"
    /\ LET coords == [k \in 1..Len(bus_passengers) |-> CoordOf(bus_passengers[k])]
       IN  \E reply \in GeometryReplies(coords) :
             LET res == RouteCoordinatesCall(coords, reply)
             IN  /\ geometry_call' = [made |-> TRUE, coordinates |-> coords,
                                      reply |-> reply, result |-> res]
                 /\ IF res.raised
                    THEN /\ tpc' = "raised"
                         /\ UNCHANGED route_coords
                    ELSE /\ tpc' = "done"
                         /\ route_coords' = res.line
    /\ UNCHANGED <<entry, bus_passengers, time_matrix, pair, queries, call,
                   optimal_route, ordered_passengers>>

TourNext ==
    \/ StartMatrix
    \/ QueryPair
    \/ SolveTsp
    \/ RouteGeometry
    \/ SinglePassenger
    \/ CoordinatesOnly

TourSpec == TourInit /\ [][TourNext]_vars

\* ==================================================================== Spec
\* One run of generate_routes, from the call to the returned dict.

\* The catalogs a RouteOptimizer is constructed with (the first is the
\* default argument), as given, before sorting.
CatalogInputs == {<<8, 15, 19, 20, 40>>, <<2, 3>>, <<5>>, <<3, 7, 3>>, <<>>}

Init ==
    /\ TourIdle
    /\ \E given \in CatalogInputs : bus_capacities = SortDesc(given)
    /\ \E n \in 0..MaxPassengers, layout \in Layouts :
         passengers \in {Frame(n, layout), StrayFrame(n, layout)}
    /\ osrm \in ServiceModes
    /\ pc = "start"
    /\ clusters = <<>>
    /\ ci = 0
    /\ capi = 0
    /\ cluster_passengers = <<>>
    /\ remaining_passengers = 0
    /\ buses_for_cluster = <<>>
    /\ assignments = <<>>
    /\ routes_data = <<>>
    /\ asked = 0
    /\ distance_matrix = ZeroMatrix(0)
    /\ result = NoResult
    /\ csv = <<>>
    /\ FirstCall
    /\ ClusterIdle
    /\ AppIdle

\* A variant that returns the routes built before the exception.
FailureResultPartial == [returned |-> TRUE, routes |-> routes_data, summary |-> NoSummary]

\* The except clause of generate_routes: the explicit empty result.
FailureResult == [returned |-> TRUE, routes |-> <<>>, summary |-> NoSummary]

\* generate_routes 151-161: cluster_passengers (KMeans; fit_predict raises
\* on an empty frame), the grouping, and the entry of the assignment's
\* cluster loop.
Cluster ==
    /\ pc = "start"
    /\ LET total_passengers == Len(passengers)
           n_clusters == ClusterCount(total_passengers)
       IN  IF total_passengers = 0
           THEN /\ pc' = "failed"
                /\ result' = FailureResult
                /\ UNCHANGED <<passengers, clusters, ci, capi, cluster_passengers,
                               remaining_passengers, fit_labels>>
           ELSE \E labels \in FitPredict(total_passengers, n_clusters, run, fit_labels) :
                  LET clustered == WithCluster(passengers, labels)
                      groups == GroupByCluster(clustered)
                  IN  /\ passengers' = clustered
                      /\ fit_labels' = labels
                      /\ clusters' = groups
                      /\ ci' = 1
                      /\ capi' = 1
                      /\ cluster_passengers' = groups[1].rows
                      /\ remaining_passengers' = Len(groups[1].rows)
                      /\ pc' = "assign"
                      /\ UNCHANGED result
    /\ UNCHANGED <<bus_capacities, osrm, buses_for_cluster, assignments, routes_data,
                   asked, distance_matrix>>
    /\ UNCHANGED outsidePipe

\* A variant of the iteration that leaves the remaining count as it is.
AssignFullKeepsCount ==
    /\ pc = "assign"
    /\ capi <= Len(bus_capacities)
    /\ remaining_passengers >= bus_capacities[capi]
    /\ Len(buses_for_cluster) < Len(clusters[ci].rows) + MaxExtraVehicles
    /\ LET capacity == bus_capacities[capi]
       IN  /\ buses_for_cluster' =
                 Append(buses_for_cluster,
                        Bus(capacity, capacity, ILocTo(cluster_passengers, capacity)))
           /\ cluster_passengers' = ILocFrom(cluster_passengers, capacity)
    /\ UNCHANGED <<bus_capacities, passengers, osrm, pc, clusters, ci, capi,
                   remaining_passengers, assignments, routes_data, asked,
                   distance_matrix, result>>
    /\ UNCHANGED outsidePipe
    /\ UNCHANGED fit_labels

\* optimize_vehicle_assignment 108-115: one iteration of the while loop.
AssignFull ==
    /\ pc = "assign"
    /\ capi <= Len(bus_capacities)
    /\ remaining_passengers >= bus_capacities[capi]
    /\ Len(buses_for_cluster) < Len(clusters[ci].rows) + MaxExtraVehicles
    /\ LET capacity == bus_capacities[capi]
       IN  /\ buses_for_cluster' =
                 Append(buses_for_cluster,
                        Bus(capacity, capacity, ILocTo(cluster_passengers, capacity)))
           /\ cluster_passengers' = ILocFrom(cluster_passengers, capacity)
           /\ remaining_passengers' = remaining_passengers - capacity
    /\ UNCHANGED <<bus_capacities, passengers, osrm, pc, clusters, ci, capi,
                   assignments, routes_data, asked,
                   distance_matrix, result>>
    /\ UNCHANGED outsidePipe
    /\ UNCHANGED fit_labels

\* optimize_vehicle_assignment 107-108: the while condition is false and the
\* for loop moves to the next capacity.
NextCapacity ==
    /\ pc = "assign"
    /\ capi <= Len(bus_capacities)
    /\ remaining_passengers < bus_capacities[capi]
    /\ capi' = capi + 1
    /\ UNCHANGED <<bus_capacities, passengers, osrm, pc, clusters, ci,
                   cluster_passengers, remaining_passengers, buses_for_cluster,
                   assignments, routes_data, asked,
                   distance_matrix, result>>
    /\ UNCHANGED outsidePipe
    /\ UNCHANGED fit_labels

\* optimize_vehicle_assignment 117-128: the remainder's vehicle (min() of an
\* empty list raises ValueError), assignments.extend, and the next cluster
\* or the return to generate_routes.
FinishCluster ==
    /\ pc = "assign"
    /\ capi > Len(bus_capacities)
    /\ LET fits == Suitable(bus_capacities, remaining_passengers)
           buses == IF remaining_passengers > 0
                    THEN Append(buses_for_cluster,
                                Bus(SuitableCapacity(bus_capacities, remaining_passengers),
                                    remaining_passengers, cluster_passengers))
                    ELSE buses_for_cluster
       IN  IF remaining_passengers > 0 /\ fits = {}
           THEN /\ pc' = "failed"
                /\ result' = FailureResult
                /\ UNCHANGED <<ci, capi, cluster_passengers, remaining_passengers,
                               buses_for_cluster, assignments>>
           ELSE /\ assignments' = assignments \o buses
                /\ buses_for_cluster' = <<>>
                /\ ci' = ci + 1
                /\ capi' = 1
                /\ IF ci < Len(clusters)
                   THEN /\ cluster_passengers' = clusters[ci + 1].rows
                        /\ remaining_passengers' = Len(clusters[ci + 1].rows)
                        /\ pc' = "assign"
                   ELSE /\ cluster_passengers' = <<>>
                        /\ remaining_passengers' = 0
                        /\ pc' = "routes"
                /\ UNCHANGED result
    /\ UNCHANGED <<bus_capacities, passengers, osrm, clusters, routes_data, asked,
                   distance_matrix>>
    /\ UNCHANGED outsidePipe
    /\ UNCHANGED fit_labels

\* generate_routes 167-202: one iteration of the route loop.
BuildRoute ==
    /\ pc = "routes"
    /\ Len(routes_data) < Len(assignments)
    /\ LET bus_counter == Len(routes_data) + 1
           assignment == assignments[bus_counter]
           seq == SequenceVehicle(assignment.passengers, osrm)
       IN  IF seq.raised
           THEN /\ pc' = "failed"
                /\ result' = FailureResult
                /\ UNCHANGED <<routes_data, asked, distance_matrix>>
           ELSE /\ routes_data' =
                      Append(routes_data,
                             [bus_id |-> bus_counter,
                              capacity |-> assignment.capacity,
                              passengers_count |-> assignment.passengers_count,
                              passengers |-> seq.ordered,
                              route_coordinates |-> seq.coords])
                /\ asked' = asked + seq.asked
                /\ distance_matrix' = IF Len(assignment.passengers) > 1
                                      THEN seq.matrix ELSE distance_matrix
                /\ UNCHANGED <<pc, result>>
    /\ UNCHANGED <<bus_capacities, passengers, osrm, clusters, ci, capi,
                   cluster_passengers, remaining_passengers, buses_for_cluster,
                   assignments>>
    /\ UNCHANGED outsidePipe
    /\ UNCHANGED fit_labels

\* sum([route['capacity'] for route in routes_data]) over the first k routes
RECURSIVE SumCapacity(_, _)
SumCapacity(routes, k) ==
    IF k = 0 THEN 0 ELSE routes[k].capacity + SumCapacity(routes, k - 1)

\* A variant that divides the capacity by the passengers.
UtilizationInverted(total_passengers, total_capacity) ==
    IF total_passengers > 0 THEN Rat(total_capacity, total_passengers) ELSE Zero

\* len(passengers) / total_capacity if total_capacity > 0 else 0
Utilization(total_passengers, total_capacity) ==
    IF total_capacity > 0 THEN Rat(total_passengers, total_capacity) ELSE Zero

\* generate_routes 204-218: the statistics and the returned dict.
Summarize ==
    /\ pc = "routes"
    /\ Len(routes_data) = Len(assignments)
    /\ LET total_capacity == SumCapacity(routes_data, Len(routes_data))
       IN  result' =
             [returned |-> TRUE, routes |-> routes_data,
              summary |->
                [total_passengers |-> Len(passengers),
                 total_buses |-> Len(routes_data),
                 total_capacity |-> total_capacity,
                 utilization_rate |-> Utilization(Len(passengers), total_capacity)]]
    /\ pc' = "done"
    /\ UNCHANGED <<bus_capacities, passengers, osrm, clusters, ci, capi,
                   cluster_passengers, remaining_passengers, buses_for_cluster,
                   assignments, routes_data, asked, distance_matrix>>
    /\ UNCHANGED outsidePipe
    /\ UNCHANGED fit_labels

Next == Cluster \/ AssignFull \/ NextCapacity \/ FinishCluster \/ BuildRoute \/ Summarize

Spec == Init /\ [][Next]_vars

\* ============================================================= ClusterSpec
\* cluster_passengers called with either method.

\* The labelings DBSCAN(eps=0.01, min_samples=2).fit_predict may return for
\* n rows: -1 for noise, clusters numbered from 0 in the order of their
\* first row, each with at least min_samples rows.
DbscanLabels == {-1, 0, 1}

DbscanLabelings(count) ==
    {labels \in [1..count -> DbscanLabels] :
        /\ \A c \in {0, 1} :
               Cardinality({row \in 1..count : labels[row] = c}) # 1
        /\ (\E row \in 1..count : labels[row] = 1) =>
               \E zero \in 1..count :
                   /\ labels[zero] = 0
                   /\ \A row \in 1..count : labels[row] = 1 => zero < row}

\* A variant that numbers the noise rows from 0.
PromoteNoiseFromZero(labels) ==
    [row \in 1..Len(labels) |->
        IF labels[row] = -1
        THEN Cardinality({before \in 1..(row - 1) : labels[before] = -1})
        ELSE labels[row]]

\* cluster_passengers 88-92: the rows labelled -1 get the ids
\* max_cluster + 1, max_cluster + 2, ... in row order.
PromoteNoise(labels) ==
    LET noise_mask == {row \in 1..Len(labels) : labels[row] = -1}
        max_cluster == SetMax(Range(labels))
    IN  IF noise_mask = {} THEN labels
        ELSE [row \in 1..Len(labels) |->
                 IF row \in noise_mask
                 THEN max_cluster + 1
                          + Cardinality({before \in noise_mask : before < row})
                 ELSE labels[row]]

ClusterInit ==
    /\ TourIdle
    /\ PipeIdle
    /\ AppIdle
    /\ cpc = "start"
    /\ method \in {"kmeans", "dbscan"}
    /\ \E n \in 0..MaxNoiseRows, layout \in Layouts : frame_in = Frame(n, layout)
    /\ raw_labels = <<>>
    /\ frame_out = <<>>

\* cluster_passengers 69-94; fit_predict raises on a frame without rows.
ClusterPassengers ==
    /\ cpc = "start"
    /\ LET total_passengers == Len(frame_in)
       IN  IF total_passengers = 0
           THEN /\ cpc' = "raised"
                /\ UNCHANGED <<raw_labels, frame_out>>
           ELSE \E labels \in IF method = "kmeans"
                               THEN Labelings(total_passengers,
                                              ClusterCount(total_passengers))
                               ELSE DbscanLabelings(total_passengers) :
                  /\ raw_labels' = labels
                  /\ frame_out' = WithCluster(frame_in,
                                              IF method = "dbscan"
                                              THEN PromoteNoise(labels) ELSE labels)
                  /\ cpc' = "done"
    /\ UNCHANGED <<method, frame_in>>
    /\ UNCHANGED <<tourVars, pipeVars, csv, run, first_run, fit_labels, appVars>>

ClusterNext == ClusterPassengers

ClusterSpec == ClusterInit /\ [][ClusterNext]_vars

\* =============================================================== TwiceSpec
\* generate_routes is called again on the frame the first call was given
\* (and left with its cluster column), with the same optimizer and the
\* same routing service.
RunAgain ==
    /\ pc \in {"done", "failed"}
    /\ run = 1
    /\ run' = 2
    /\ first_run' = result
    /\ pc' = "start"
    /\ clusters' = <<>>
    /\ ci' = 0
    /\ capi' = 0
    /\ cluster_passengers' = <<>>
    /\ remaining_passengers' = 0
    /\ buses_for_cluster' = <<>>
    /\ assignments' = <<>>
    /\ routes_data' = <<>>
    /\ asked' = 0
    /\ distance_matrix' = ZeroMatrix(0)
    /\ result' = NoResult
    /\ UNCHANGED <<bus_capacities, passengers, osrm, csv, fit_labels>>
    /\ UNCHANGED <<tourVars, clusterVars, appVars>>

TwiceNext ==
    \/ Cluster
    \/ AssignFull
    \/ NextCapacity
    \/ FinishCluster
    \/ BuildRoute
    \/ Summarize
    \/ RunAgain

TwiceSpec == Init /\ [][TwiceNext]_vars

\* ================================================================ MainSpec
\* execute_night_shift_system up to the return of generate_routes: data
\* reception reads, cleans and validates the CSV, and only a frame that
\* passes is handed to the optimizer (constructed with the default catalog).

\* The regional box of validate_csv_data, in degrees.
LatMin == -5

LatMax == 15

LngMin == -85

LngMax == -65

\* convert_coordinate: a number beyond 180 is taken for thousandths.
DegreeLimit == 180

ThousandthsPerDegree == 1000

\* An empty cell of the CSV (NaN in the frame).
NullCell == [t |-> "null", v |-> 0]

\* convert_coordinate for the cells of the model: numbers, a text that is
\* not a number (returned as it is), and the empty cell.
ConvertCoordinate(coord) ==
    IF coord.t = "num" /\ Abs(coord.v) > DegreeLimit
    THEN Num(coord.v \div ThousandthsPerDegree)
    ELSE coord

\* clean_coordinates
CleanCoordinates(df) ==
    [k \in 1..Len(df) |->
        [id |-> df[k].id, lat |-> ConvertCoordinate(df[k].lat),
         lng |-> ConvertCoordinate(df[k].lng)]]

\* pd.to_numeric(..., errors='coerce') turns text into NaN, and NaN, like
\* the empty cell, is not between any bounds.
Between(cell, lo, hi) == cell.t = "num" /\ lo <= cell.v /\ cell.v <= hi

\* validate_csv_data: TRUE when the list of errors is empty.  all() over an
\* empty column is True, so a frame without rows passes.
ValidateCsvData(df) ==
    /\ \A k \in 1..Len(df) : df[k].lat.t # "null" /\ df[k].lng.t # "null"
    /\ \A k \in 1..Len(df) : Between(df[k].lat, LatMin, LatMax)
    /\ \A k \in 1..Len(df) : Between(df[k].lng, LngMin, LngMax)

\* process_passenger_data 96-99: ids as text, coordinates as numbers.
PreparedFrame(df) ==
    [k \in 1..Len(df) |->
        [id |-> ToString(df[k].id), lat |-> df[k].lat.v, lng |-> df[k].lng.v]]

\* What can be wrong with the latitude of the last row of the file.
Defects == {"none", "null", "text", "outside", "thousandths"}

DefectiveCell(lat, defect) ==
    CASE defect = "none" -> Num(lat)
      [] defect = "null" -> NullCell
      [] defect = "text" -> NotANumber
      [] defect = "outside" -> Num(lat + 96)
      [] defect = "thousandths" -> Num(lat * ThousandthsPerDegree)

\* The frame pd.read_csv returns for a file of n rows (n = 0: the header
\* line alone).
RawFrame(n, layout, defect) ==
    [k \in 1..n |->
        [id |-> k,
         lat |-> IF k = n THEN DefectiveCell(PlaceOf(k, layout)[1], defect)
                 ELSE Num(PlaceOf(k, layout)[1]),
         lng |-> Num(PlaceOf(k, layout)[2])]]

MainInit ==
    /\ TourIdle
    /\ bus_capacities = SortDesc(<<8, 15, 19, 20, 40>>)
    /\ \E n \in 0..MaxCsvRows, layout \in Layouts, defect \in Defects :
         csv = RawFrame(n, layout, defect)
    /\ passengers = <<>>
    /\ osrm \in ServiceModes
    /\ pc = "reception"
    /\ clusters = <<>>
    /\ ci = 0
    /\ capi = 0
    /\ cluster_passengers = <<>>
    /\ remaining_passengers = 0
    /\ buses_for_cluster = <<>>
    /\ assignments = <<>>
    /\ routes_data = <<>>
    /\ asked = 0
    /\ distance_matrix = ZeroMatrix(0)
    /\ result = NoResult
    /\ FirstCall
    /\ ClusterIdle
    /\ AppIdle

\* main 44-54: process_passenger_data; when it raises the system returns
\* (None, None, None), otherwise generate_routes is called on the frame.
ReceiveData ==
    /\ pc = "reception"
    /\ LET df == CleanCoordinates(csv)
       IN  IF ValidateCsvData(df)
           THEN /\ passengers' = PreparedFrame(df)
                /\ pc' = "start"
           ELSE /\ pc' = "rejected"
                /\ UNCHANGED passengers
    /\ UNCHANGED <<bus_capacities, osrm, clusters, ci, capi, cluster_passengers,
                   remaining_passengers, buses_for_cluster, assignments,
                   routes_data, asked, distance_matrix, result, csv,
                   run, first_run, fit_labels>>
    /\ UNCHANGED <<tourVars, clusterVars, appVars>>

MainNext ==
    \/ ReceiveData
    \/ Cluster
    \/ AssignFull
    \/ NextCapacity
    \/ FinishCluster
    \/ BuildRoute
    \/ Summarize

MainSpec == MainInit /\ [][MainNext]_vars

\* ============================================================== AssignSpec
\* optimize_vehicle_assignment called with a dict of clusters, for optimizers
\* constructed with any list of integers as the catalog.

\* The catalogs of Spec, a catalog of single seats, and catalogs with a
\* capacity that is not positive (the constructor accepts any list).
AssignCatalogs == CatalogInputs \cup {<<1>>, <<0>>, <<4, 0>>, <<3, -2>>}

\* passengers_by_cluster: one or two clusters of the given sizes, cut from
\* one clustered frame.
ClustersOfSizes(sizes, layout) ==
    LET total == IF Len(sizes) = 1 THEN sizes[1] ELSE sizes[1] + sizes[2]
        labels == [row \in 1..total |-> IF row <= sizes[1] THEN 0 ELSE 1]
        clustered == WithCluster(Frame(total, layout), labels)
    IN  [k \in 1..Len(sizes) |->
            [cluster_id |-> k - 1,
             rows |-> IF k = 1 THEN SubSeq(clustered, 1, sizes[1])
                      ELSE SubSeq(clustered, sizes[1] + 1, total)]]

AssignInit ==
    /\ TourIdle
    /\ ClusterIdle
    /\ AppIdle
    /\ FirstCall
    /\ csv = <<>>
    /\ \E given \in AssignCatalogs : bus_capacities = SortDesc(given)
    /\ \E layout \in Layouts, a \in 0..MaxClusterRows, b \in 0..MaxClusterRows :
         clusters \in {ClustersOfSizes(<<a>>, layout), ClustersOfSizes(<<a, b>>, layout)}
    /\ passengers = <<>>
    /\ osrm = "none"
    /\ pc = "assign"
    /\ ci = 1
    /\ capi = 1
    /\ cluster_passengers = clusters[1].rows
    /\ remaining_passengers = Len(clusters[1].rows)
    /\ buses_for_cluster = <<>>
    /\ assignments = <<>>
    /\ routes_data = <<>>
    /\ asked = 0
    /\ distance_matrix = ZeroMatrix(0)
    /\ result = NoResult

AssignNext ==
    \/ AssignFull
    \/ NextCapacity
    \/ FinishCluster

\* The loops run on: a step is taken whenever one is possible.
AssignSpec == AssignInit /\ [][AssignNext]_vars /\ WF_vars(AssignNext)

\* ================================================================= AppSpec
\* AppDataGenerator() and generate_driver_app_data(route_info) on one route.

\* float + float
RatAdd(a, b) == Rat(a.n * b.d + b.n * a.d, a.d * b.d)

\* round(x, 1): the nearest tenth, the even one of two equally near.
Round1(x) ==
    LET scaled == x.n * 10
        low == scaled \div x.d
        rest == scaled - low * x.d
        tenths == IF 2 * rest < x.d THEN low
                  ELSE IF 2 * rest > x.d THEN low + 1
                  ELSE IF low % 2 = 0 THEN low ELSE low + 1
    IN  Rat(tenths, 10)

\* datetime.strptime("22:30", "%H:%M")
DepartureTime == <<22, 30>>

\* (departure_time + timedelta(minutes=m)).strftime("%H:%M"): the hour and
\* minute of the clock, the seconds and the day dropped.
StrfTime(minutes) ==
    LET whole == minutes.n \div minutes.d
        clock == (DepartureTime[1] * 60 + DepartureTime[2] + whole) % (24 * 60)
    IN  <<clock \div 60, clock % 60>>

\* (total_distance / total_duration * 60) if total_duration > 0 else 0
AverageSpeed(distance, duration) ==
    IF RatLess(Zero, duration)
    THEN Rat(distance.n * duration.d * 60, distance.d * duration.n)
    ELSE Zero

\* What the provider's service answers to a leg's query: durations and
\* distances that are not whole tenths, a negative pair, and a failure.
AppReplies ==
    { OkReply(100, 1234, NoGeometry),
      OkReply(300, 2500, NoGeometry),
      OkReply(-90, -500, NoGeometry),
      Reply("timeout", 0, FALSE, "absent", "absent", <<>>) }

\* route_info['passengers'] in the order given.
Reversed(frame) == [k \in 1..Len(frame) |-> frame[Len(frame) + 1 - k]]

AppInit ==
    /\ TourIdle
    /\ PipeIdle
    /\ ClusterIdle
    /\ apc = "start"
    /\ name_bound \in BOOLEAN
    /\ \E n \in 0..MaxStops, layout \in Layouts :
         \E rows \in {Frame(n, layout), Reversed(Frame(n, layout))} :
            route_info = [capacity |-> SetMax({n, 1}), passengers_count |-> n,
                          passengers |-> rows]
    /\ idx = 0
    /\ previous_coords = OfficeCoords
    /\ total_duration = Zero
    /\ total_distance = Zero
    /\ stops = <<>>
    /\ passengers_list = <<>>
    /\ leg_calls = <<>>
    /\ driver_app_data = NoDriverData

\* AppDataGenerator.__init__: the module binds the name RealRouteCalculator
\* nowhere itself, so the constructor raises NameError unless the
\* embedding program has bound it in the module's globals.
Construct ==
    /\ apc = "start"
    /\ apc' = IF name_bound THEN "ready" ELSE "raised"
    /\ UNCHANGED <<name_bound, route_info, idx, previous_coords, total_duration,
                   total_distance, stops, passengers_list, leg_calls, driver_app_data>>
    /\ UNCHANGED <<tourVars, pipeVars, csv, run, first_run, fit_labels, clusterVars>>

\* A variant of the iteration that measures every leg from the depot.
WalkStopFromDepot ==
    /\ apc = "ready"
    /\ idx < Len(route_info.passengers)
    /\ \E reply \in AppReplies :
         LET passenger == route_info.passengers[idx + 1]
             current_coords == CoordOf(passenger)
             leg == GetRouteDurationDistance(previous_coords, current_coords, reply)
             duration_sum == RatAdd(total_duration, leg.minutes)
             distance_sum == RatAdd(total_distance, leg.km)
             estimated_time == StrfTime(duration_sum)
         IN  IF leg.raised
             THEN /\ apc' = "raised"
                  /\ UNCHANGED <<idx, previous_coords, total_duration, total_distance,
                                 stops, passengers_list, leg_calls>>
             ELSE /\ total_duration' = duration_sum
                  /\ total_distance' = distance_sum
                  /\ passengers_list' =
                        Append(passengers_list,
                               [order |-> idx + 1, passenger_id |-> passenger.id,
                                estimated_arrival |-> estimated_time])
                  /\ stops' =
                        Append(stops,
                               [stop_number |-> idx + 1,
                                coordinates |-> <<passenger.lat, passenger.lng>>,
                                estimated_time |-> estimated_time,
                                duration_from_previous |-> Round1(leg.minutes),
                                distance_from_previous |-> Round1(leg.km)])
                  /\ leg_calls' =
                        Append(leg_calls,
                               [origin |-> previous_coords, destination |-> current_coords,
                                minutes |-> leg.minutes, km |-> leg.km])
                  /\ previous_coords' = previous_coords
                  /\ idx' = idx + 1
                  /\ UNCHANGED apc
    /\ UNCHANGED <<name_bound, route_info, driver_app_data>>
    /\ UNCHANGED <<tourVars, pipeVars, csv, run, first_run, fit_labels, clusterVars>>

\* generate_driver_app_data 77-112: one iteration of the loop over the
\* route's passengers.
WalkStop ==
    /\ apc = "ready"
    /\ idx < Len(route_info.passengers)
    /\ \E reply \in AppReplies :
         LET passenger == route_info.passengers[idx + 1]
             current_coords == CoordOf(passenger)
             leg == GetRouteDurationDistance(previous_coords, current_coords, reply)
             duration_sum == RatAdd(total_duration, leg.minutes)
             distance_sum == RatAdd(total_distance, leg.km)
             estimated_time == StrfTime(duration_sum)
         IN  IF leg.raised
             THEN /\ apc' = "raised"
                  /\ UNCHANGED <<idx, previous_coords, total_duration, total_distance,
                                 stops, passengers_list, leg_calls>>
             ELSE /\ total_duration' = duration_sum
                  /\ total_distance' = distance_sum
                  /\ passengers_list' =
                        Append(passengers_list,
                               [order |-> idx + 1, passenger_id |-> passenger.id,
                                estimated_arrival |-> estimated_time])
                  /\ stops' =
                        Append(stops,
                               [stop_number |-> idx + 1,
                                coordinates |-> <<passenger.lat, passenger.lng>>,
                                estimated_time |-> estimated_time,
                                duration_from_previous |-> Round1(leg.minutes),
                                distance_from_previous |-> Round1(leg.km)])
                  /\ leg_calls' =
                        Append(leg_calls,
                               [origin |-> previous_coords, destination |-> current_coords,
                                minutes |-> leg.minutes, km |-> leg.km])
                  /\ previous_coords' = current_coords
                  /\ idx' = idx + 1
                  /\ UNCHANGED apc
    /\ UNCHANGED <<name_bound, route_info, driver_app_data>>
    /\ UNCHANGED <<tourVars, pipeVars, csv, run, first_run, fit_labels, clusterVars>>

\* generate_driver_app_data 114-141: the returned dict.
ReturnDriverData ==
    /\ apc = "ready"
    /\ idx = Len(route_info.passengers)
    /\ driver_app_data' =
          [returned |-> TRUE,
           total_stops |-> Len(stops),
           estimated_duration_minutes |-> Round1(total_duration),
           total_distance_km |-> Round1(total_distance),
           average_speed_kmh |-> Round1(AverageSpeed(total_distance, total_duration)),
           passengers |-> passengers_list,
           route_stops |-> stops]
    /\ apc' = "done"
    /\ UNCHANGED <<name_bound, route_info, idx, previous_coords, total_duration,
                   total_distance, stops, passengers_list, leg_calls>>
    /\ UNCHANGED <<tourVars, pipeVars, csv, run, first_run, fit_labels, clusterVars>>

AppNext ==
    \/ Construct
    \/ WalkStop
    \/ ReturnDriverData

AppSpec == AppInit /\ [][AppNext]_vars

\* ================================================================== claims

\* ---- helpers of the claims' formulas
IdsOf(frame) == {frame[pos].id : pos \in 1..Len(frame)}

\* The places <<route, stop>> of the result where a passenger id occurs.
Occurrences(routes, id) ==
    {rs \in {<<r, st>> : r \in 1..Len(routes), st \in 1..MaxPassengers} :
        /\ rs[2] <= Len(routes[rs[1]].passengers)
        /\ routes[rs[1]].passengers[rs[2]].id = id}

RoutedIds(routes) ==
    UNION {IdsOf(routes[r].passengers) : r \in 1..Len(routes)}

IsPermutationOf(seq, S) ==
    /\ Len(seq) = Cardinality(S)
    /\ Range(seq) = S

\* C1: when generate_routes succeeds on a non-empty input, every input
\* passenger id is in the passengers list of exactly one returned route,
\* exactly once, and the routes hold no passenger that was not in the input.
C1_EveryPassengerRoutedOnce ==
    (pc = "done" /\ Len(passengers) > 0) =>
        /\ result.returned
        /\ \A id \in IdsOf(passengers) :
               Cardinality(Occurrences(result.routes, id)) = 1
        /\ RoutedIds(result.routes) \subseteq IdsOf(passengers)

\* C1 witness: a finished run with two clusters, some vehicle whose visiting
\* order differs from the input order, and more than two routes.
C1_Witness ==
    /\ pc = "done"
    /\ Len(clusters) = 2
    /\ Len(result.routes) > 2
    /\ \E r \in 1..Len(result.routes) :
         \E st \in 1..(Len(result.routes[r].passengers) - 1) :
            result.routes[r].passengers[st].id > result.routes[r].passengers[st + 1].id

AllBuses == assignments \o buses_for_cluster

\* C2: every assignment produced by optimize_vehicle_assignment has
\* passengers_count <= capacity and a capacity that is in the catalog.
C2_WithinCatalogCapacity ==
    \A b \in 1..Len(AllBuses) :
        /\ AllBuses[b].passengers_count <= AllBuses[b].capacity
        /\ AllBuses[b].capacity \in Range(bus_capacities)

\* C2 witness: the assignment returned a full and an under-filled vehicle.
C2_Witness ==
    /\ pc = "routes"
    /\ \E b \in 1..Len(assignments) :
         assignments[b].passengers_count < assignments[b].capacity
    /\ \E b \in 1..Len(assignments) :
         assignments[b].passengers_count = assignments[b].capacity

RECURSIVE SumCounts(_, _)
SumCounts(buses, upto) ==
    IF upto = 0 THEN 0 ELSE buses[upto].passengers_count + SumCounts(buses, upto - 1)

RECURSIVE SumRows(_, _)
SumRows(groups, upto) ==
    IF upto = 0 THEN 0 ELSE Len(groups[upto].rows) + SumRows(groups, upto - 1)

\* C3: once optimize_vehicle_assignment has returned, the passengers_count
\* of its assignments add up to the number of passengers of all clusters,
\* and each passengers_count is the length of that assignment's list.
C3_CountsAddUp ==
    pc \in {"routes", "done"} =>
        /\ SumCounts(assignments, Len(assignments)) = SumRows(clusters, Len(clusters))
        /\ \A b \in 1..Len(assignments) :
               assignments[b].passengers_count = Len(assignments[b].passengers)

\* C3 witness: two clusters were assigned and some vehicle is under-filled.
C3_Witness ==
    /\ pc = "routes"
    /\ Len(clusters) = 2
    /\ Len(assignments) > 2
    /\ \E b \in 1..Len(assignments) :
         assignments[b].passengers_count < assignments[b].capacity

\* Number of the cluster's vehicles so far that have the capacity.
FullCount(capacity) ==
    Cardinality({b \in 1..Len(buses_for_cluster) :
                    buses_for_cluster[b].capacity = capacity})

\* The cluster's count left when the walk reaches the capacity: its size
\* less what the vehicles of larger capacities took.
RECURSIVE TakenByLarger(_, _)
TakenByLarger(capacity, upto) ==
    IF upto = 0 THEN 0
    ELSE (IF buses_for_cluster[upto].capacity > capacity
          THEN buses_for_cluster[upto].capacity ELSE 0)
         + TakenByLarger(capacity, upto - 1)

RemainingBefore(capacity) ==
    Len(clusters[ci].rows) - TakenByLarger(capacity, Len(buses_for_cluster))

\* C4: for one cluster the catalog is walked in descending capacity order;
\* every vehicle emitted by the walk is full; once the walk has passed a
\* capacity c it has emitted floor(remaining-before-c / c) vehicles of it
\* (never more while it is at c, none before it reaches c); and the full
\* vehicles are in non-increasing capacity order.
C4_GreedyLargestFirst ==
    pc = "assign" =>
        /\ \A q \in 1..(Len(bus_capacities) - 1) :
               bus_capacities[q] >= bus_capacities[q + 1]
        /\ \A b \in 1..Len(buses_for_cluster) :
               buses_for_cluster[b].passengers_count = buses_for_cluster[b].capacity
        /\ \A b \in 1..(Len(buses_for_cluster) - 1) :
               buses_for_cluster[b].capacity >= buses_for_cluster[b + 1].capacity
        /\ \A q \in 1..Len(bus_capacities) :
               LET c == bus_capacities[q]
               IN  /\ q < capi => FullCount(c) = RemainingBefore(c) \div c
                   /\ q >= capi => FullCount(c) <= RemainingBefore(c) \div c
                   /\ (q > capi /\ c < bus_capacities[capi]) => FullCount(c) = 0

\* C4 witness: the walk is over for a cluster that got full vehicles of two
\* different capacities, two of them of the same capacity.
C4_Witness ==
    /\ pc = "assign"
    /\ capi > Len(bus_capacities)
    /\ \E b \in 1..(Len(buses_for_cluster) - 2) :
         /\ buses_for_cluster[b].capacity = buses_for_cluster[b + 1].capacity
         /\ buses_for_cluster[Len(buses_for_cluster)].capacity
                < buses_for_cluster[b].capacity

\* The step of FinishCluster that puts a remainder into a vehicle.
RemainderStep ==
    /\ pc = "assign"
    /\ capi > Len(bus_capacities)
    /\ remaining_passengers > 0
    /\ pc' # "failed"

CapacityCounts(buses) ==
    [b \in 1..Len(buses) |-> <<buses[b].capacity, buses[b].passengers_count>>]

\* C5: a remainder left by the greedy pass and placed (some catalog capacity
\* can hold it) goes, whole, into exactly one more vehicle, whose capacity is
\* the smallest of all catalog capacities that is >= the remainder; 25 passengers in one cluster with the catalog
\* [8,15,19,20,40] get a 20-vehicle with 20 and an 8-vehicle with 5.
C5_RemainderInSmallestSufficient ==
    /\ [][RemainderStep =>
             /\ Len(assignments') = Len(assignments) + Len(buses_for_cluster) + 1
             /\ LET last == assignments'[Len(assignments')]
                IN  /\ last.passengers_count = remaining_passengers
                    /\ last.passengers = cluster_passengers
                    /\ last.capacity \in Range(bus_capacities)
                    /\ last.capacity >= remaining_passengers
                    /\ \A c \in Range(bus_capacities) :
                           c >= remaining_passengers => last.capacity <= c]_vars
    /\ []((/\ pc \in {"routes", "done"}
           /\ bus_capacities = <<40, 20, 19, 15, 8>>
           /\ Len(passengers) = 25)
          => CapacityCounts(assignments) = <<<<20, 20>>, <<8, 5>>>>)

\* C5 witness: the 25-passenger scenario has been assigned.
C5_Witness ==
    /\ pc = "routes"
    /\ bus_capacities = <<40, 20, 19, 15, 8>>
    /\ Len(passengers) = 25
    /\ Len(assignments) = 2
    /\ assignments[2].passengers_count = 5

\* Fewest catalog vehicles (capacities reusable) whose capacities add up to
\* at least size: as many of the largest capacity as it takes.
MinVehicles(size) ==
    LET largest == SetMax(Range(bus_capacities))
    IN  (size + largest - 1) \div largest

\* The step of FinishCluster that hands a cluster's vehicles over.
ClusterAssignedStep ==
    /\ pc = "assign"
    /\ capi > Len(bus_capacities)
    /\ pc' # "failed"

\* C6 as stated: the number of assignments of a cluster is the minimum
\* number of catalog vehicles that can hold the cluster.
C6_FewestVehicles ==
    [][ClusterAssignedStep =>
          Len(assignments') - Len(assignments) = MinVehicles(Len(clusters[ci].rows))]_vars

RECURSIVE SumCapacities(_, _, _)
SumCapacities(buses, from, upto) ==
    IF upto < from THEN 0
    ELSE buses[upto].capacity + SumCapacities(buses, from, upto - 1)

\* C6 amended: the vehicles of a cluster can hold it, are never fewer than
\* the minimum, and are exactly the minimum when the cluster size is a
\* multiple of the largest capacity or at most the smallest capacity.
C6_GreedyCoverNotFewest ==
    [][ClusterAssignedStep =>
          LET size == Len(clusters[ci].rows)
              used == Len(assignments') - Len(assignments)
              caps == Range(bus_capacities)
          IN  /\ SumCapacities(assignments', Len(assignments) + 1, Len(assignments'))
                     >= size
              /\ used >= MinVehicles(size)
              /\ (size % SetMax(caps) = 0 \/ size <= SetMin(caps))
                     => used = MinVehicles(size)]_vars

\* C6 witness: one cluster of 40 with the default catalog took one vehicle,
\* the minimum.
C6_Witness ==
    /\ pc = "routes"
    /\ bus_capacities = <<40, 20, 19, 15, 8>>
    /\ Len(clusters) = 1
    /\ Len(passengers) = 40
    /\ Len(assignments) = 1

\* ---- the tour (TourSpec)
Stops == 0..(Len(bus_passengers) - 1)

\* solve_tsp_greedy has run and returned in this state.
TourComputed ==
    /\ tpc \in {"geometry", "done"}
    /\ entry = "direct" \/ (entry = "generate_routes" /\ Len(bus_passengers) > 1)

\* C7: for a matrix over n >= 1 points solve_tsp_greedy returns (it does not
\* raise) a permutation of 0..n-1, and the visiting order generate_routes
\* derives is a permutation of the vehicle's passengers.
C7_TourIsPermutation ==
    Len(bus_passengers) >= 1 =>
        /\ tpc # "raised"
        /\ TourComputed => IsPermutationOf(optimal_route, Stops)
        /\ (tpc \in {"geometry", "done"} /\ entry = "generate_routes") =>
               /\ Len(ordered_passengers) = Len(bus_passengers)
               /\ Range(ordered_passengers) = Range(bus_passengers)

\* C7 witness: a three-passenger vehicle of generate_routes visited in the
\* order 0, 2, 1.
C7_Witness ==
    /\ tpc = "done"
    /\ entry = "generate_routes"
    /\ optimal_route = <<0, 2, 1>>
    /\ [st \in 1..3 |-> ordered_passengers[st].id] = <<1, 3, 2>>

\* C8: the tour starts at index 0, and every later stop is an index not yet
\* visited whose duration from the stop before is minimal among the
\* unvisited ones, the lowest such index when several tie.
C8_NearestNeighbourLowestIndex ==
    TourComputed =>
        /\ Len(optimal_route) = Len(bus_passengers)
        /\ optimal_route[1] = 0
        /\ \A st \in 2..Len(optimal_route) :
               LET current == optimal_route[st - 1]
                   chosen == optimal_route[st]
                   unvisited == Stops \ {optimal_route[q] : q \in 1..(st - 1)}
               IN  /\ chosen \in unvisited
                   /\ \A u \in unvisited :
                          /\ ~RatLess(time_matrix[current][u], time_matrix[current][chosen])
                          /\ time_matrix[current][u] = time_matrix[current][chosen]
                                 => chosen <= u

\* C8 witness: stops 1 and 2 were equally far from stop 0 and the tour went
\* to stop 1; and in another position the farther-indexed stop was nearer.
C8_Witness ==
    /\ tpc = "done"
    /\ entry = "generate_routes"
    /\ Len(bus_passengers) = 3
    /\ time_matrix[0][1] = time_matrix[0][2]
    /\ time_matrix[0][1] # Zero
    /\ optimal_route = <<0, 1, 2>>

\* C9 as stated, for the tour of 0 or 1 passenger: the sequencing does not
\* fail, asks no duration, and leaves the passengers as they were given.
C9_TrivialTourUnchanged ==
    (Len(bus_passengers) <= 1 /\ tpc # "start") =>
        /\ tpc # "raised"
        /\ queries = <<>>
        /\ (tpc = "done" /\ entry = "generate_routes") =>
               ordered_passengers = bus_passengers
        /\ (tpc = "done" /\ entry = "direct") =>
               ILoc(bus_passengers, optimal_route) = bus_passengers

\* The reply is a successful one with a numeric duration and distance.
WellFormedSuccess(reply) ==
    /\ reply.net = "ok"
    /\ reply.status < 400
    /\ reply.json
    /\ reply.code = "Ok"
    /\ reply.routes.t = "list"
    /\ reply.routes.items # <<>>
    /\ reply.routes.items[1].duration.t = "num"
    /\ reply.routes.items[1].distance.t = "num"

C11_NonNegativePair ==
    call.made =>
        /\ ~call.result.raised
        /\ call.result.minutes.n >= 0
        /\ call.result.km.n >= 0

\* The reply is a successful one whose first route carries a geometry of
\* [lng, lat] points.
WellFormedGeometry(reply) ==
    /\ reply.net = "ok"
    /\ reply.status < 400
    /\ reply.json
    /\ reply.code = "Ok"
    /\ reply.routes.t = "list"
    /\ reply.routes.items # <<>>
    /\ reply.routes.items[1].geometry.t = "ok"
    /\ \A k \in 1..Len(reply.routes.items[1].geometry.coordinates) :
           Len(reply.routes.items[1].geometry.coordinates[k]) >= 2

\* C12: get_route_coordinates never raises, and it returns its input, the
\* same points in the same order, whenever the input has fewer than two
\* coordinates or the routing call fails in any way (exception, timeout,
\* error status, code not 'Ok', no routes, malformed geometry).
C12_GeometryFallbackIsInput ==
    geometry_call.made =>
        /\ ~geometry_call.result.raised
        /\ (Len(geometry_call.coordinates) < 2 \/ ~WellFormedGeometry(geometry_call.reply))
               => geometry_call.result.line = geometry_call.coordinates

\* C12 witness: a geometry with a malformed point was answered with the
\* three waypoints of the request, the depot first.
C12_Witness ==
    /\ geometry_call.made
    /\ ReplyGate(geometry_call.reply) = "route"
    /\ ~WellFormedGeometry(geometry_call.reply)
    /\ Len(geometry_call.coordinates) = 3
    /\ geometry_call.coordinates[1] = OfficeCoords
    /\ route_coords = geometry_call.coordinates
    /\ tpc = "done"

\* ---- the run when the routing service fails (Spec)
\* Every passenger's coordinate lies in the validated box.
ValidCoordinates(frame) == \A pos \in 1..Len(frame) : CoordOf(frame[pos]) \in Places

\* minutes is the geodesic distance of the two rows at 25 km/h.
IsFallbackMinutes(minutes, rowA, rowB) ==
    LET geo == Geodesic(CoordOf(rowA), CoordOf(rowB))
    IN  minutes.n * AverageSpeedKmh * geo.d = MinutesPerHour * geo.n * minutes.d

\* The depot, then the coordinates of the rows in their order.
DepotThenStops(rows) ==
    [k \in 1..(Len(rows) + 1) |->
        IF k = 1 THEN OfficeCoords ELSE <<rows[k - 1].lat, rows[k - 1].lng>>]

\* The step of BuildRoute that adds the route of a vehicle of several
\* passengers.
MatrixRouteStep ==
    /\ pc = "routes"
    /\ Len(routes_data') = Len(routes_data) + 1
    /\ Len(assignments[Len(routes_data) + 1].passengers) > 1

C14_UtilizationInUnitInterval ==
    result.returned =>
        LET summary == result.summary
            rate == summary.utilization_rate
        IN  /\ summary.total_buses = Len(result.routes)
            /\ summary.total_capacity
                   = SumCapacities(result.routes, 1, Len(result.routes))
            /\ summary.total_capacity > 0 =>
                   /\ rate.n * summary.total_capacity = summary.total_passengers * rate.d
                   /\ rate.n >= 0
                   /\ rate.n <= rate.d
            /\ summary.total_capacity = 0 => rate = Zero

\* C14 witness: 25 passengers in vehicles of 20 and 8 seats, utilization
\* 25/28.
C14_Witness ==
    /\ pc = "done"
    /\ result.summary.total_buses = 2
    /\ result.summary.total_capacity = 28
    /\ result.summary.utilization_rate = Rat(25, 28)

\* ---- a stage raises (Spec)
\* C15: when a stage of generate_routes raises, the caller gets an empty
\* route list with a summary of zeros; a returned route list is either
\* that empty list or the complete one, never the routes built so far.
C15_FailureResultIsEmpty ==
    /\ pc = "failed" =>
           /\ result.returned
           /\ result.routes = <<>>
           /\ result.summary.total_passengers = 0
           /\ result.summary.total_buses = 0
           /\ result.summary.total_capacity = 0
           /\ result.summary.utilization_rate = Zero
    /\ result.returned =>
           /\ pc \in {"done", "failed"}
           /\ pc = "done" =>
                  /\ result.routes = routes_data
                  /\ Len(result.routes) = Len(assignments)

\* C15 witness: the matrix of the second vehicle raised after the route of
\* the first had been built, and the empty result was returned.
C15_Witness ==
    /\ pc = "failed"
    /\ Len(assignments) = 2
    /\ Len(routes_data) = 1
    /\ result.returned
    /\ result.routes = <<>>

\* ---- no capacity for a remainder (Spec)
\* The assigner has raised because no catalog capacity holds the remainder
\* of the cluster at hand.
NoCapacityFailure ==
    /\ pc = "failed"
    /\ remaining_passengers > 0
    /\ \A q \in 1..Len(bus_capacities) : bus_capacities[q] < remaining_passengers

\* What generate_routes returns when clustering raises on an empty input.
EmptyInputOutcome == [returned |-> TRUE, routes |-> <<>>, summary |-> NoSummary]

\* C16 as stated: when no catalog capacity can hold a remainder, what the
\* caller gets differs from the outcome of every other failure.
C16_ConfigurationErrorDistinct ==
    NoCapacityFailure => result # EmptyInputOutcome

\* ---- input errors (MainSpec)
\* A cell that is no coordinate of the regional box: empty, not a number,
\* or a number outside the box.
MalformedCoordinate(row) ==
    \/ ~Between(ConvertCoordinate(row.lat), LatMin, LatMax)
    \/ ~Between(ConvertCoordinate(row.lng), LngMin, LngMax)

InputError ==
    Len(csv) = 0 \/ \E k \in 1..Len(csv) : MalformedCoordinate(csv[k])

\* C17 as stated: an empty passenger set or a malformed coordinate ends
\* the run at data reception with (None, None, None); generate_routes is
\* not called, and cluster_passengers never sees an empty passenger set.
C17_InputErrorStopsAtReception ==
    /\ InputError => pc \in {"reception", "rejected"}
    /\ pc \in {"start", "assign", "routes", "done", "failed"} => Len(passengers) > 0

NoiseRows == {row \in 1..Len(raw_labels) : raw_labels[row] = -1}

\* The number of clusters of the grouping that hold the row's passenger.
ClustersHolding(groups, id) ==
    Cardinality({g \in 1..Len(groups) :
                    \E pos \in 1..Len(groups[g].rows) : groups[g].rows[pos].id = id})

\* C19: with the density-based method every row labelled -1 gets a
\* cluster id of its own, different from every other noise row's and from
\* every cluster id fit_predict gave; no row keeps -1, the other rows keep
\* their label, and the grouping by label puts every passenger in exactly
\* one cluster, also when every row is noise.
C19_NoisePromotedToSingletons ==
    (cpc = "done" /\ method = "dbscan") =>
        LET n == Len(frame_in)
            groups == GroupByCluster(frame_out)
        IN  /\ Len(frame_out) = n
            /\ \A row \in 1..n :
                   /\ frame_out[row].id = frame_in[row].id
                   /\ frame_out[row].cluster # -1
                   /\ row \notin NoiseRows => frame_out[row].cluster = raw_labels[row]
                   /\ row \in NoiseRows =>
                          \A other \in 1..n :
                              other # row =>
                                  /\ frame_out[other].cluster # frame_out[row].cluster
                                  /\ raw_labels[other] # frame_out[row].cluster
            /\ \A row \in 1..n : ClustersHolding(groups, frame_in[row].id) = 1
            /\ \A g \in 1..Len(groups) : groups[g].rows # <<>>

\* C19 witness: rows 1 and 3 form cluster 0, rows 2 and 4 are noise and
\* became clusters 1 and 2.
C19_Witness ==
    /\ cpc = "done"
    /\ method = "dbscan"
    /\ raw_labels = <<0, -1, 0, -1>>
    /\ [row \in 1..4 |-> frame_out[row].cluster] = <<0, 1, 0, 2>>

\* Every row was noise and each got its own cluster.
C19_AllNoiseReached ==
    /\ cpc = "done"
    /\ method = "dbscan"
    /\ raw_labels = <<-1, -1, -1>>
    /\ [row \in 1..3 |-> frame_out[row].cluster] = <<0, 1, 2>>

\* ---- the travel-time matrix (TourSpec)
\* calculate_real_distance_matrix has returned in this state.
MatrixBuilt ==
    /\ tpc \in {"tsp", "geometry", "done"}
    /\ entry = "direct" \/ (entry = "generate_routes" /\ Len(bus_passengers) > 1)

\* The unordered pairs of stops, as <<i, j>> with i < j.
StopPairs == {p \in Stops \X Stops : p[1] < p[2]}

\* C20: the matrix of n passengers is built with one duration query per
\* pair i < j, n(n-1)/2 in all, none for i = j; a query's result is
\* written to (i, j) and (j, i) and to no other entry; and the matrix is
\* symmetric with a zero diagonal whatever the service answers.
C20_OneQueryPerPairSymmetric ==
    /\ [](/\ \A q \in 1..Len(queries) : queries[q] \in StopPairs
          /\ \A q, r \in 1..Len(queries) : q # r => queries[q] # queries[r]
          /\ \A a, b \in DOMAIN time_matrix :
                 /\ time_matrix[a][b] = time_matrix[b][a]
                 /\ a = b => time_matrix[a][b] = Zero
          /\ MatrixBuilt =>
                 /\ DOMAIN time_matrix = Stops
                 /\ Range(queries) = StopPairs
                 /\ 2 * Len(queries) = Len(bus_passengers) * (Len(bus_passengers) - 1))
    /\ [][tpc = "matrix" =>
             LET i == pair[1]
                 j == pair[2]
             IN  /\ queries' = Append(queries, <<i, j>>)
                 /\ call'.made
                 /\ call'.origin = <<bus_passengers[i + 1].lat, bus_passengers[i + 1].lng>>
                 /\ call'.destination
                        = <<bus_passengers[j + 1].lat, bus_passengers[j + 1].lng>>
                 /\ time_matrix'[i][j] = call'.result.minutes
                 /\ time_matrix'[j][i] = call'.result.minutes
                 /\ \A a, b \in Stops :
                        {a, b} # {i, j} => time_matrix'[a][b] = time_matrix[a][b]]_vars

\* C20 witness: three passengers, three queries, a fallback of 2.4 minutes
\* between stops 0 and 1 and a service duration of 5 minutes between stops
\* 1 and 2, each in both directions.
C20_Witness ==
    /\ tpc = "tsp"
    /\ Len(bus_passengers) = 3
    /\ queries = <<<<0, 1>>, <<0, 2>>, <<1, 2>>>>
    /\ time_matrix[0][1] = Rat(12, 5)
    /\ time_matrix[1][0] = Rat(12, 5)
    /\ time_matrix[1][2] = Rat(5, 1)
    /\ time_matrix[2][1] = Rat(5, 1)

\* ---- the caller's passenger frame (Spec)
\* The columns of a passenger record as ingested.
IngestedFields == {"id", "lat", "lng"}

\* C22 as stated: generate_routes leaves the caller's passenger frame as it
\* was given (same records, same fields, same values), and the passenger
\* records of the returned routes carry exactly the ingested fields.
C22_PassengersNeverMutated ==
    /\ [][passengers' = passengers]_vars
    /\ [](result.returned =>
             \A r \in 1..Len(result.routes) :
                 \A k \in 1..Len(result.routes[r].passengers) :
                     DOMAIN result.routes[r].passengers[k] = IngestedFields)

\* ---- the remainder of the greedy pass (Spec)
\* The catalog is not empty and every capacity is positive.
PositiveCatalog ==
    /\ Len(bus_capacities) > 0
    /\ \A q \in 1..Len(bus_capacities) : bus_capacities[q] > 0

\* The passengers of the vehicles from..upto, one list after the other.
RECURSIVE RowsOfBuses(_, _, _)
RowsOfBuses(buses, from, upto) ==
    IF upto < from THEN <<>>
    ELSE RowsOfBuses(buses, from, upto - 1) \o buses[upto].passengers

\* C24: with a non-empty catalog of positive capacities, the remainder left
\* by the greedy pass is smaller than the smallest capacity; a cluster has
\* at most one under-filled vehicle, which is the last one emitted for it
\* and has the smallest catalog capacity; and the vehicles of a cluster hold
\* passengers of that cluster only, as consecutive disjoint slices of the
\* cluster in input order.
C24_RemainderBelowSmallest ==
    /\ []((PositiveCatalog /\ pc = "assign" /\ capi > Len(bus_capacities))
            => remaining_passengers < SetMin(Range(bus_capacities)))
    /\ [][(PositiveCatalog /\ ClusterAssignedStep) =>
             LET first == Len(assignments) + 1
                 last == Len(assignments')
                 under == {b \in first..last :
                             assignments'[b].passengers_count < assignments'[b].capacity}
             IN  /\ Cardinality(under) <= 1
                 /\ \A b \in under :
                        /\ b = last
                        /\ assignments'[b].capacity = SetMin(Range(bus_capacities))
                 /\ RowsOfBuses(assignments', first, last) = clusters[ci].rows
                 /\ \A b \in first..last :
                        \A k \in 1..Len(assignments'[b].passengers) :
                            assignments'[b].passengers[k].cluster
                                = clusters[ci].cluster_id]_vars

\* C24 witness: two clusters were assigned with a catalog of several
\* capacities; the last vehicle is under-filled, has the smallest capacity
\* and follows full vehicles of the same cluster.
C24_Witness ==
    /\ pc = "routes"
    /\ Len(clusters) = 2
    /\ Len(bus_capacities) > 1
    /\ LET last == assignments[Len(assignments)]
           before == assignments[Len(assignments) - 1]
       IN  /\ Len(assignments) >= 4
           /\ last.passengers_count < last.capacity
           /\ last.capacity = SetMin(Range(bus_capacities))
           /\ before.passengers_count = before.capacity
           /\ before.passengers[1].cluster = last.passengers[1].cluster

\* ---- termination of the assignment (AssignSpec)
\* An iteration of the while loop is about to run.
WhileIteration ==
    /\ pc = "assign"
    /\ capi <= Len(bus_capacities)
    /\ remaining_passengers >= bus_capacities[capi]

\* No capacity of the catalog is zero or negative.
PositiveCapacities == \A q \in 1..Len(bus_capacities) : bus_capacities[q] > 0

\* C23 as stated, for every catalog: each iteration of the while loop
\* strictly decreases the remaining count, a cluster of size s gets at most
\* s assignments, and optimize_vehicle_assignment comes to an end.
C23_TerminatesForEveryCatalog ==
    /\ [][WhileIteration => remaining_passengers' < remaining_passengers]_vars
    /\ [](pc = "assign" => Len(buses_for_cluster) <= Len(clusters[ci].rows))
    /\ [][ClusterAssignedStep =>
             Len(assignments') - Len(assignments) <= Len(clusters[ci].rows)]_vars
    /\ <>(pc # "assign")

\* C23 amended: the same for every catalog whose capacities are all
\* positive (the empty catalog included).
C23_TerminatesForPositiveCatalog ==
    /\ [][(PositiveCapacities /\ WhileIteration) =>
             /\ remaining_passengers' < remaining_passengers
             /\ remaining_passengers' >= 0]_vars
    /\ []((PositiveCapacities /\ pc = "assign")
            => Len(buses_for_cluster) <= Len(clusters[ci].rows))
    /\ [][(PositiveCapacities /\ ClusterAssignedStep) =>
             Len(assignments') - Len(assignments) <= Len(clusters[ci].rows)]_vars
    /\ PositiveCapacities ~> (pc # "assign")

\* C23 witness: with the catalog of single seats, two clusters were
\* assigned and got as many vehicles as they have passengers.
C23_Witness ==
    /\ pc = "routes"
    /\ bus_capacities = <<1>>
    /\ Len(clusters) = 2
    /\ Len(clusters[1].rows) >= 2
    /\ Len(clusters[2].rows) >= 2
    /\ Len(assignments) = Len(clusters[1].rows) + Len(clusters[2].rows)

\* ---- the driver's route data (AppSpec)
\* The durations of the first k calls added up.
RECURSIVE SumMinutes(_, _)
SumMinutes(calls, k) ==
    IF k = 0 THEN Zero ELSE RatAdd(SumMinutes(calls, k - 1), calls[k].minutes)

\* The distances of the first k calls added up.
RECURSIVE SumKm(_, _)
SumKm(calls, k) ==
    IF k = 0 THEN Zero ELSE RatAdd(SumKm(calls, k - 1), calls[k].km)

\* C21: generate_driver_app_data walks the route's passengers in the order
\* given, from the depot: leg 1 is depot -> stop 1 and leg k is stop k-1 ->
\* stop k; after stop k the accumulated duration and distance are the sums
\* of the first k legs (and do not decrease over a leg that is not
\* negative), the stop's time is the clock time of the accumulated
\* duration; stops are numbered 1..n in that order; and the totals returned
\* are the sums over all legs, rounded to one decimal.
C21_WalkFromDepotAccumulates ==
    /\ [](apc \in {"ready", "done"} =>
            /\ Len(leg_calls) = idx
            /\ Len(stops) = idx
            /\ Len(passengers_list) = idx
            /\ \A k \in 1..idx :
                   /\ leg_calls[k].origin =
                          IF k = 1 THEN OfficeCoords
                          ELSE <<route_info.passengers[k - 1].lat,
                                 route_info.passengers[k - 1].lng>>
                   /\ leg_calls[k].destination =
                          <<route_info.passengers[k].lat, route_info.passengers[k].lng>>
                   /\ stops[k].stop_number = k
                   /\ stops[k].coordinates = leg_calls[k].destination
                   /\ stops[k].estimated_time = StrfTime(SumMinutes(leg_calls, k))
                   /\ passengers_list[k].order = k
                   /\ passengers_list[k].passenger_id = route_info.passengers[k].id
            /\ total_duration = SumMinutes(leg_calls, idx)
            /\ total_distance = SumKm(leg_calls, idx))
    /\ [][(apc = "ready" /\ idx' = idx + 1) =>
             /\ ~RatLess(leg_calls'[idx'].minutes, Zero)
                    => ~RatLess(total_duration', total_duration)
             /\ ~RatLess(leg_calls'[idx'].km, Zero)
                    => ~RatLess(total_distance', total_distance)]_vars
    /\ [](driver_app_data.returned =>
            LET n == Len(route_info.passengers)
            IN  /\ idx = n
                /\ driver_app_data.total_stops = n
                /\ driver_app_data.route_stops = stops
                /\ driver_app_data.estimated_duration_minutes
                       = Round1(SumMinutes(leg_calls, n))
                /\ driver_app_data.total_distance_km = Round1(SumKm(leg_calls, n)))

\* C21 witness: a route of three passengers given in the order 3, 2, 1 was
\* walked with legs of 5/3, 5/3 and 5 minutes; the total of 25/3 minutes is
\* returned as 8.3 and the last stop is reached at 22:38.
C21_Witness ==
    /\ apc = "done"
    /\ Len(route_info.passengers) = 3
    /\ route_info.passengers[1].id = 3
    /\ leg_calls[1].minutes = Rat(5, 3)
    /\ leg_calls[2].minutes = Rat(5, 3)
    /\ leg_calls[3].minutes = Rat(5, 1)
    /\ total_duration = Rat(25, 3)
    /\ driver_app_data.estimated_duration_minutes = Rat(83, 10)
    /\ stops[3].stop_number = 3
    /\ stops[3].estimated_time = <<22, 38>>

====
